---- MODULE Spec2Model ----
(***************************************************************************)
(* Host program of the bilateral filter benchmark                          *)
(* (solutions/Bilateral/bilateral.cpp): argument parsing, device           *)
(* selection, resource acquisition, the timed kernel loop, the read-back,  *)
(* the scalar reference filter and the verifier.                           *)
(*                                                                         *)
(* Spec        is a whole run of main, from argv to the process exit, on   *)
(*             a one-pixel image.                                          *)
(* SpecPixels  starts a run at line 134 (image decoded, device output read *)
(*             back) on images of up to MaxPixels pixels and runs the      *)
(*             reference filter and the verifier.                          *)
(*                                                                         *)
(* Floating point is not modelled: the R, G, B bytes the reference filter  *)
(* and the device kernel produce are a nondeterministic choice from small  *)
(* sets; indices, clamping, alpha, counters and control flow are exact.    *)
(***************************************************************************)
EXTENDS Integers, Sequences, FiniteSets, TLC

\* ------------------------------------------------------------- bounds
MaxArgs == 3
MaxDevices == 2
MaxPixels == 4

\* -------------------------------------------------- program constants
DefaultDeviceIndex == 0
DefaultIterations == 32
tolerance == 1
MaxShown == 8
Radius == 2
RgbChannels == 3
BytesPerPixel == 4

\* sigmaDomain = 3.f and sigmaRange = 0.2f as <<numerator, denominator>>
DefaultSigmaDomain == <<3, 1>>
DefaultSigmaRange == <<1, 5>>
\* cl::NullRange
NullRange == <<>>
DefaultInputFile == <<"1080p.bmp">>

\* ------------------------------------------------------------ helpers
Range(s) == {s[k] : k \in DOMAIN s}
Min(a, b) == IF a < b THEN a ELSE b
Max(a, b) == IF a > b THEN a ELSE b
Abs(a) == IF a < 0 THEN -a ELSE a

\* --------------------------------------------------------------- argv
\* An argument is a sequence of characters; the option words are kept as
\* one unit each, since the program only ever compares them whole.
Digits == {"0", "1"}
DigitVal(ch) == IF ch = "1" THEN 1 ELSE 0
ValueTokens == {<<>>, <<"0">>, <<"1">>, <<"1", "x">>}
FlagTokens == {<<"--list">>, <<"--help">>, <<"--device">>, <<"--image">>,
               <<"--iterations">>, <<"--sd">>, <<"--sr">>, <<"--wgsize">>,
               <<"--bogus">>}
Tokens == FlagTokens \cup ValueTokens
ArgVectors == UNION {[1..n -> Tokens] : n \in 0..MaxArgs}

\* strtoul / strtod on the alphabet above: the longest prefix of digits is
\* converted, `next` is what follows it (the whole string when nothing was
\* converted).
RECURSIVE DigitPrefixLen(_)
DigitPrefixLen(str) ==
    IF Len(str) > 0 /\ Head(str) \in Digits
    THEN 1 + DigitPrefixLen(Tail(str))
    ELSE 0

RECURSIVE DigitsValue(_, _)
DigitsValue(str, n) ==
    IF n = 0 THEN 0
    ELSE 10 * DigitsValue(str, n - 1) + DigitVal(str[n])

Strto(str) ==
    LET n == DigitPrefixLen(str)
    IN  [value |-> DigitsValue(str, n), next |-> SubSeq(str, n + 1, Len(str))]

\* int parseFloat(const char *str, cl_float *output)
parseFloat(str) ==
    LET r == Strto(str)
    IN  [ok |-> Len(r.next) = 0, value |-> <<r.value, 1>>]

\* int parseUInt(const char *str, cl_uint *output), declared in util.hpp and
\* defined outside this file: it succeeds exactly on a decimal numeral (0
\* included, which --device needs) and stores its value.
parseUInt(str) ==
    LET r == Strto(str)
    IN  [ok |-> Len(str) > 0 /\ Len(r.next) = 0, value |-> r.value]

\* One line of standard output / standard error.
Line(kind) == [kind |-> kind, x |-> 0, y |-> 0, c |-> 0, out |-> 0, ref |-> 0, n |-> 0]

DefaultConfig ==
    [deviceIndex |-> DefaultDeviceIndex, iterations |-> DefaultIterations,
     sigmaDomain |-> DefaultSigmaDomain, sigmaRange |-> DefaultSigmaRange,
     wgsize |-> NullRange, inputFile |-> DefaultInputFile]

ParseReturn(cfg) == [kind |-> "return", code |-> 0, cfg |-> cfg, out |-> <<>>]
ParseExit(code, cfg, line) == [kind |-> "exit", code |-> code, cfg |-> cfg, out |-> <<Line(line)>>]
ParseThrow(cfg) == [kind |-> "throw", code |-> 0, cfg |-> cfg, out |-> <<>>]

\* void parseArguments(int argc, char *argv[]); i is 1-based over the
\* arguments after argv[0].  listThrows: getDeviceList raises cl::Error.
RECURSIVE parseArgumentsFrom(_, _, _, _)
parseArgumentsFrom(av, i, cfg, listThrows) ==
    IF i > Len(av) THEN ParseReturn(cfg)
    ELSE LET a == av[i]
             hasNext == i + 1 <= Len(av)
         IN
         IF a = <<"--list">> THEN
             IF listThrows THEN ParseThrow(cfg) ELSE ParseExit(0, cfg, "Devices")
         ELSE IF a = <<"--device">> THEN
             IF ~hasNext \/ ~parseUInt(av[i + 1]).ok
             THEN ParseExit(1, cfg, "Invalid device index")
             ELSE parseArgumentsFrom(av, i + 2,
                      [cfg EXCEPT !.deviceIndex = parseUInt(av[i + 1]).value], listThrows)
         ELSE IF a = <<"--image">> THEN
             IF ~hasNext
             THEN ParseExit(1, cfg, "Missing argument to --image")
             ELSE parseArgumentsFrom(av, i + 2,
                      [cfg EXCEPT !.inputFile = av[i + 1]], listThrows)
         ELSE IF a = <<"--iterations">> \/ a = <<"-i">> THEN
             IF ~hasNext \/ ~parseUInt(av[i + 1]).ok
             THEN ParseExit(1, cfg, "Invalid number of iterations")
             ELSE parseArgumentsFrom(av, i + 2,
                      [cfg EXCEPT !.iterations = parseUInt(av[i + 1]).value], listThrows)
         ELSE IF a = <<"--sd">> THEN
             IF ~hasNext \/ ~parseFloat(av[i + 1]).ok
             THEN ParseExit(1, cfg, "Invalid sigma domain")
             ELSE parseArgumentsFrom(av, i + 2,
                      [cfg EXCEPT !.sigmaDomain = parseFloat(av[i + 1]).value], listThrows)
         ELSE IF a = <<"--sr">> THEN
             IF ~hasNext \/ ~parseFloat(av[i + 1]).ok
             THEN ParseExit(1, cfg, "Invalid sigma range")
             ELSE parseArgumentsFrom(av, i + 2,
                      [cfg EXCEPT !.sigmaRange = parseFloat(av[i + 1]).value], listThrows)
         ELSE IF a = <<"--wgsize">> THEN
             IF ~hasNext \/ ~parseUInt(av[i + 1]).ok
             THEN ParseExit(1, cfg, "Invalid work-group width")
             ELSE IF ~(i + 2 <= Len(av)) \/ ~parseUInt(av[i + 2]).ok
             THEN ParseExit(1, cfg, "Invalid work-group height")
             ELSE parseArgumentsFrom(av, i + 3,
                      [cfg EXCEPT !.wgsize = <<parseUInt(av[i + 1]).value,
                                               parseUInt(av[i + 2]).value>>], listThrows)
         ELSE IF a = <<"--help">> \/ a = <<"-h">> THEN
             ParseExit(0, cfg, "Usage")
         ELSE ParseExit(1, cfg, "Unrecognized argument")

parseArguments(av, listThrows) == parseArgumentsFrom(av, 1, DefaultConfig, listThrows)

\* -------------------------------------------------------------- images
\* A pixel buffer is an array of bytes indexed from 0.  SDL_LoadBMP yields
\* one of a few images whose bytes all differ; the device output read back
\* and the R, G, B bytes the float arithmetic of the reference produces are
\* drawn per pixel from small sets around one value, so that differences of
\* 0, 1 and 2 occur in every channel position and alpha always differs.
NoBuffer == [k \in {} |-> 0]
Seeds == {11, 200}
InputImage(w, h, seed) == [k \in 0..(w * h * BytesPerPixel - 1) |-> (k * 37 + seed) % 256]
ResultPixels == {<<5, 5, 5, 0>>, <<5, 6, 7, 9>>}
ResultImages(w, h) ==
    {[k \in 0..(w * h * BytesPerPixel - 1) |-> f[k \div BytesPerPixel][(k % BytesPerPixel) + 1]] :
        f \in [0..(w * h - 1) -> ResultPixels]}
RefRGB == {<<5, 5, 5>>, <<7, 4, 5>>}
\* new uint8_t[n]: indeterminate bytes, written as -1
Indeterminate(w, h) == [k \in 0..(w * h * BytesPerPixel - 1) |-> -1]
\* image sizes: one pixel in a whole run, up to MaxPixels from line 134
LoadDims == {<<1, 1>>}
LoadSeeds == {11}
PixelDims == {d \in (1..MaxPixels) \X (1..MaxPixels) : d[1] * d[2] <= MaxPixels}

\* A read of buffer b at byte k; outside the buffer the read is undefined
\* behaviour and is written as -2.
ReadByte(b, k) == IF k \in DOMAIN b THEN b[k] ELSE -2

\* ------------------------------------------------------- runReference
\* lines 339-340: the clamped sample coordinates
SampleXWrapped(x, i, width) == (x + i) % width
SampleX(x, i, width) == Min(Max(x + i, 0), width - 1)
SampleY(y, j, height) == Min(Max(y + j, 0), height - 1)

\* lines 335-344: the 25 samples read for output pixel (x, y)
Neighbourhood(input, x, y, width, height) ==
    {[i |-> i, j |-> j,
      x |-> x, y |-> y,
      sx |-> SampleX(x, i, width), sy |-> SampleY(y, j, height),
      r |-> ReadByte(input, (SampleX(x, i, width) + SampleY(y, j, height) * width) * BytesPerPixel + 0),
      g |-> ReadByte(input, (SampleX(x, i, width) + SampleY(y, j, height) * width) * BytesPerPixel + 1),
      b |-> ReadByte(input, (SampleX(x, i, width) + SampleY(y, j, height) * width) * BytesPerPixel + 2)] :
        i \in (-Radius)..Radius, j \in (-Radius)..Radius}

\* line 363: the alpha byte stored for output pixel (x, y)
AlphaOut(input, x, y, width) == ReadByte(input, (x + y * width) * BytesPerPixel + 3)

\* lines 360-363: the four stores of one pass of the loop body; rgb are the
\* bytes the float arithmetic produced.
StorePixel(m, inName, outName, x, y, width, rgb) ==
    LET base == (x + y * width) * BytesPerPixel
        a == AlphaOut(m[inName], x, y, width)
    IN  [m EXCEPT ![outName] =
            [k \in DOMAIN m[outName] |->
                IF k = base + 0 THEN rgb[1]
                ELSE IF k = base + 1 THEN rgb[2]
                ELSE IF k = base + 2 THEN rgb[3]
                ELSE IF k = base + 3 THEN a
                ELSE m[outName][k]]]

\* line 139: runReference((uint8_t*)image->pixels, reference, w, h)
RunReferenceInPlace == [input |-> "image", output |-> "image"]
RunReferenceCall == [input |-> "image", output |-> "reference"]

\* ----------------------------------------------------------- verifier
DetailLine(x, y, c, o, r) == [kind |-> "detail", x |-> x, y |-> y, c |-> c, out |-> o, ref |-> r, n |-> 0]
TotalLine(n) == [kind |-> "Total errors", x |-> 0, y |-> 0, c |-> 0, out |-> 0, ref |-> 0, n |-> n]

\* line 155
IsMismatchInclusive(diff) == diff >= tolerance
IsMismatch(diff) == diff > tolerance

\* line 163, the test of errors++ < 8
ShowsDetailInclusive(errs) == errs <= MaxShown
ShowsDetail(errs) == errs < MaxShown

\* line 150: the channels compared
ComparedChannels == RgbChannels

\* lines 145-171: the three nested loops from (y, x, c) on; st is
\* [errors, out].  errors is a 32-bit unsigned; an image holds fewer than
\* 2^32 compared bytes here, so errors++ never wraps.
RECURSIVE CheckLoop(_, _, _, _, _, _, _, _)
CheckLoop(res, ref, w, h, y, x, c, st) ==
    IF y >= h THEN st
    ELSE IF x >= w THEN CheckLoop(res, ref, w, h, y + 1, 0, 0, st)
    ELSE IF c >= ComparedChannels THEN CheckLoop(res, ref, w, h, y, x + 1, 0, st)
    ELSE LET o == res[(x + y * w) * BytesPerPixel + c]
             r == ref[(x + y * w) * BytesPerPixel + c]
             diff == Abs(r - o)
             hdr == IF st.errors = 0 THEN <<Line("Verification failed:")>> ELSE <<>>
             det == IF ShowsDetail(st.errors) THEN <<DetailLine(x, y, c, o, r)>> ELSE <<>>
         IN  IF IsMismatch(diff)
             THEN CheckLoop(res, ref, w, h, y, x, c + 1,
                      [errors |-> st.errors + 1, out |-> st.out \o hdr \o det])
             ELSE CheckLoop(res, ref, w, h, y, x, c + 1, st)

\* lines 145-179
CheckResults(res, ref, w, h) ==
    LET st == CheckLoop(res, ref, w, h, 0, 0, 0, [errors |-> 0, out |-> <<>>])
    IN  [errors |-> st.errors,
         out |-> st.out \o (IF st.errors # 0 THEN <<TotalLine(st.errors)>>
                            ELSE <<Line("Verification passed.")>>)]

\* -------------------------------------------------------------- state
VARIABLES
    argv,        \* the arguments after argv[0]
    numDevices,  \* size of the list getDeviceList returns
    pc,          \* position of main
    cfg,         \* the globals of lines 26-32
    held,        \* resources acquired and not released
    created,     \* resources ever acquired
    events,      \* host operations on the device, timer and files, in order
    out,         \* lines written to std::cout / std::cerr
    status,      \* "running", "exit" (exit or return) or "abort" (std::terminate)
    exitCode,    \* the exit code, -1 while there is none
    exitAt,      \* where the process ended
    fault,       \* the fatal condition raised, "none" while there is none
    i,           \* loop counter of line 111
    pending,     \* kernel commands enqueued and not yet executed
    completed,   \* kernel commands the device has executed
    W,           \* image->w
    H,           \* image->h
    mem,         \* the pixel buffers: image->pixels, result->pixels, reference
    ry,          \* runReference: y
    rx,          \* runReference: x
    writes,      \* stores made by runReference, per byte of its output buffer
    samples,     \* the neighbourhood read in the last pass of runReference
    errors       \* the verifier's errors

envVars == <<argv, numDevices>>
devVars == <<i, pending, completed>>
pixVars == <<W, H, mem, ry, rx, writes, samples, errors>>
endVars == <<status, exitCode, exitAt>>
vars == <<argv, numDevices, pc, cfg, held, created, events, out, status, exitCode,
          exitAt, fault, i, pending, completed, W, H, mem, ry, rx, writes, samples,
          errors>>

\* The objects of main's try block whose destructors release them.
Scoped == {"context", "queue", "program", "kernel", "input", "output"}
NoMem == [image |-> NoBuffer, result |-> NoBuffer, reference |-> NoBuffer]

Init ==
    /\ argv \in ArgVectors
    /\ numDevices \in 0..MaxDevices
    /\ pc = "parseArguments"
    /\ cfg = DefaultConfig
    /\ held = {}
    /\ created = {}
    /\ events = <<>>
    /\ out = <<>>
    /\ status = "running"
    /\ exitCode = -1
    /\ exitAt = "none"
    /\ fault = "none"
    /\ i = 0
    /\ pending = 0
    /\ completed = 0
    /\ W = 0
    /\ H = 0
    /\ mem = NoMem
    /\ ry = 0
    /\ rx = 0
    /\ writes = NoBuffer
    /\ samples = {}
    /\ errors = 0

\* exit(code), or return code from main
Exit(code, at, lines) ==
    /\ status' = "exit"
    /\ exitCode' = code
    /\ exitAt' = at
    /\ out' = out \o lines
    /\ pc' = "done"

\* A cl::Error leaves the try block: the destructors of the objects built so
\* far run, then the handler of line 184 is entered.  The loop counter and
\* the command queue are gone with the block.
Raise(code) ==
    /\ fault' = code
    /\ pc' = "catch"
    /\ held' = held \ Scoped
    /\ i' = 0
    /\ pending' = 0
    /\ completed' = 0
    /\ UNCHANGED <<envVars, cfg, created, events, out, endVars, pixVars>>

Acquire(r, next) ==
    /\ held' = held \cup {r}
    /\ created' = created \cup {r}
    /\ pc' = next
    /\ UNCHANGED <<envVars, cfg, events, out, endVars, fault, devVars, pixVars>>

\* line 38
ParseArguments ==
    /\ pc = "parseArguments"
    /\ \E listThrows \in BOOLEAN :
         LET r == parseArguments(argv, listThrows)
         IN  /\ cfg' = r.cfg
             /\ \/ /\ r.kind = "return"
                   /\ pc' = "getDeviceList"
                   /\ UNCHANGED <<out, endVars, fault>>
                \/ /\ r.kind = "exit"
                   /\ Exit(r.code, "parseArguments", r.out)
                   /\ UNCHANGED fault
                \/ /\ r.kind = "throw"
                   /\ pc' = "catch"
                   /\ fault' = "CL_ERROR"
                   /\ UNCHANGED <<out, endVars>>
    /\ UNCHANGED <<envVars, held, created, events, devVars, pixVars>>

\* lines 41-55
SelectDevice ==
    /\ pc = "getDeviceList"
    /\ \/ Raise("CL_ERROR")
       \/ /\ cfg.deviceIndex >= numDevices
          /\ Exit(1, "deviceCheck", <<Line("Invalid device index (try '--list')")>>)
          /\ UNCHANGED <<envVars, cfg, held, created, events, fault, devVars, pixVars>>
       \/ /\ cfg.deviceIndex < numDevices
          /\ pc' = "context"
          /\ out' = Append(out, Line("Using OpenCL device"))
          /\ UNCHANGED <<envVars, cfg, held, created, events, endVars, fault, devVars, pixVars>>

\* line 57
CreateContext ==
    /\ pc = "context"
    /\ Acquire("context", "queue") \/ Raise("CL_ERROR")

\* line 58
CreateQueue ==
    /\ pc = "queue"
    /\ Acquire("queue", "program") \/ Raise("CL_ERROR")

\* line 59
CreateProgram ==
    /\ pc = "program"
    /\ Acquire("program", "build") \/ Raise("CL_ERROR")

\* lines 60-76
BuildProgram ==
    /\ pc = "build"
    /\ \/ /\ pc' = "kernel"
          /\ UNCHANGED <<held, out, fault>>
       \/ /\ fault' = "CL_BUILD_PROGRAM_FAILURE"
          /\ out' = Append(out, Line("build log"))
          /\ pc' = "catch"
          /\ held' = held \ Scoped
       \/ /\ fault' = "CL_ERROR"
          /\ pc' = "catch"
          /\ held' = held \ Scoped
          /\ UNCHANGED out
    /\ UNCHANGED <<envVars, cfg, created, events, endVars, devVars, pixVars>>

\* lines 77-78
MakeKernel ==
    /\ pc = "kernel"
    /\ Acquire("kernel", "loadImage") \/ Raise("CL_ERROR")

\* lines 81-86: SDL_LoadBMP; on failure `throw;` with no exception being
\* handled calls std::terminate, and no destructor runs.
LoadImageFailureContinues ==
    /\ fault' = "DECODE"
    /\ out' = Append(out, Line("SDL_GetError"))
    /\ pc' = "createImages"
    /\ UNCHANGED <<held, created, endVars, pixVars>>

LoadImageFailure ==
    /\ fault' = "DECODE"
    /\ out' = Append(out, Line("SDL_GetError"))
    /\ status' = "abort"
    /\ exitAt' = "terminate"
    /\ pc' = "done"
    /\ UNCHANGED <<held, created, exitCode, pixVars>>

LoadImage ==
    /\ pc = "loadImage"
    /\ \/ \E d \in LoadDims, seed \in LoadSeeds :
            /\ W' = d[1]
            /\ H' = d[2]
            /\ mem' = [mem EXCEPT !.image = InputImage(d[1], d[2], seed)]
            /\ held' = held \cup {"image"}
            /\ created' = created \cup {"image"}
            /\ pc' = "createImages"
            /\ UNCHANGED <<out, endVars, fault, ry, rx, writes, samples, errors>>
       \/ LoadImageFailure
    /\ UNCHANGED <<envVars, cfg, events, devVars>>

\* lines 88-90
CreateImages ==
    /\ pc = "createImages"
    /\ \/ /\ held' = held \cup {"input", "output"}
          /\ created' = created \cup {"input", "output"}
          /\ pc' = "writeImage"
          /\ UNCHANGED <<envVars, cfg, events, out, endVars, fault, devVars, pixVars>>
       \/ Raise("CL_ERROR")

\* lines 93-105: the blocking write of the input image
WriteImage ==
    /\ pc = "writeImage"
    /\ \/ /\ events' = Append(events, "write")
          /\ pc' = "startTimer"
          /\ UNCHANGED <<envVars, cfg, held, created, out, endVars, fault, devVars, pixVars>>
       \/ Raise("CL_ERROR")

\* lines 108-110
StartTimer ==
    /\ pc = "startTimer"
    /\ events' = Append(events, "start")
    /\ out' = Append(out, Line("Running OpenCL..."))
    /\ i' = 0
    /\ pc' = "loop"
    /\ UNCHANGED <<envVars, cfg, held, created, endVars, fault, pending, completed, pixVars>>

\* line 111, the loop test
LoopTest == i < cfg.iterations

\* lines 111-115: one pass of the loop enqueues one kernel
InvokeKernel ==
    /\ pc = "loop"
    /\ LoopTest
    /\ \/ /\ events' = Append(events, "kernel")
          /\ pending' = pending + 1
          /\ i' = i + 1
          /\ UNCHANGED <<envVars, pc, cfg, held, created, out, endVars, fault, completed, pixVars>>
       \/ Raise("CL_ERROR")

\* The device executes the oldest enqueued kernel, asynchronously.
DeviceStep ==
    /\ status = "running"
    /\ "queue" \in held
    /\ pending > 0
    /\ pending' = pending - 1
    /\ completed' = completed + 1
    /\ UNCHANGED <<envVars, pc, cfg, held, created, events, out, endVars, fault, i, pixVars>>

\* line 116: queue.finish() returns once every enqueued command has run
FinishReturns == TRUE
FinishBlocks == pending = 0

Finish ==
    /\ pc = "loop"
    /\ ~LoopTest
    /\ \/ /\ FinishBlocks
          /\ events' = Append(events, "finish")
          /\ pc' = "endTimer"
          /\ UNCHANGED <<envVars, cfg, held, created, out, endVars, fault, devVars, pixVars>>
       \/ Raise("CL_ERROR")

\* lines 117-122
EndTimer ==
    /\ pc = "endTimer"
    /\ events' = Append(events, "end")
    /\ out' = Append(out, Line("OpenCL took"))
    /\ pc' = "readBack"
    /\ UNCHANGED <<envVars, cfg, held, created, endVars, fault, devVars, pixVars>>

\* lines 125-130: the result surface is a copy of the input surface, then
\* the blocking read of the device output overwrites its pixels.
ReadBack ==
    /\ pc = "readBack"
    /\ created' = created \cup {"result"}
    /\ \/ /\ pending = 0
          /\ \E r \in ResultImages(W, H) : mem' = [mem EXCEPT !.result = r]
          /\ held' = held \cup {"result"}
          /\ events' = Append(events, "read")
          /\ pc' = "saveBMP"
          /\ UNCHANGED fault
       \/ /\ mem' = [mem EXCEPT !.result = mem.image]
          /\ held' = (held \cup {"result"}) \ Scoped
          /\ fault' = "CL_ERROR"
          /\ pc' = "catch"
          /\ UNCHANGED events
    /\ UNCHANGED <<envVars, cfg, out, endVars, devVars, W, H, ry, rx, writes, samples, errors>>

\* line 131
SaveBMP ==
    /\ pc = "saveBMP"
    /\ events' = Append(events, "save")
    /\ pc' = "allocReference"
    /\ UNCHANGED <<envVars, cfg, held, created, out, endVars, fault, devVars, pixVars>>

\* lines 135-138
AllocReference ==
    /\ pc = "allocReference"
    /\ out' = Append(out, Line("Running reference..."))
    /\ events' = Append(events, "reference")
    /\ held' = held \cup {"reference"}
    /\ created' = created \cup {"reference"}
    /\ mem' = [mem EXCEPT !.reference = Indeterminate(W, H)]
    /\ writes' = [k \in 0..(W * H * BytesPerPixel - 1) |-> 0]
    /\ ry' = 0
    /\ rx' = 0
    /\ pc' = "runReference"
    /\ UNCHANGED <<envVars, cfg, endVars, fault, devVars, W, H, samples, errors>>

\* lines 322-364: one pass of the body of runReference's pixel loops
RunReferencePixel ==
    /\ pc = "runReference"
    /\ ry < H
    /\ \E rgb \in RefRGB :
         mem' = StorePixel(mem, RunReferenceCall.input, RunReferenceCall.output, rx, ry, W, rgb)
    /\ samples' = Neighbourhood(mem[RunReferenceCall.input], rx, ry, W, H)
    /\ writes' = [k \in DOMAIN writes |->
                     IF k \div BytesPerPixel = rx + ry * W THEN writes[k] + 1 ELSE writes[k]]
    /\ IF rx + 1 < W
       THEN rx' = rx + 1 /\ ry' = ry
       ELSE rx' = 0 /\ ry' = ry + 1
    /\ UNCHANGED <<envVars, pc, cfg, held, created, events, out, endVars, fault, devVars, W, H, errors>>

\* lines 140-142: runReference has returned
RunReferenceReturn ==
    /\ pc = "runReference"
    /\ ~(ry < H)
    /\ out' = Append(out, Line("Reference took"))
    /\ pc' = "check"
    /\ UNCHANGED <<envVars, cfg, held, created, events, endVars, fault, devVars, pixVars>>

\* lines 145-180
Verify ==
    /\ pc = "check"
    /\ LET r == CheckResults(mem.result, mem.reference, W, H)
       IN  /\ errors' = r.errors
           /\ out' = out \o r.out
    /\ events' = Append(events, "verify")
    /\ pc' = "cleanup"
    /\ UNCHANGED <<envVars, cfg, held, created, endVars, fault, devVars, W, H, mem, ry, rx, writes, samples>>

\* lines 182-183: delete[] reference, then the try block's objects are
\* destroyed; neither SDL surface is freed.
Cleanup ==
    /\ pc = "cleanup"
    /\ held' = (held \ {"reference"}) \ Scoped
    /\ pc' = "epilogue"
    /\ UNCHANGED <<envVars, cfg, created, events, out, endVars, fault, devVars, pixVars>>

\* lines 184-193
CatchError ==
    /\ pc = "catch"
    /\ out' = Append(out, Line("Exception:"))
    /\ pc' = "epilogue"
    /\ UNCHANGED <<envVars, cfg, held, created, events, endVars, fault, devVars, pixVars>>

\* the value main returns at line 200
ReturnErrorsAsStatus == IF errors # 0 \/ fault # "none" THEN 1 ELSE 0
ReturnValue == 0

\* lines 194-200
Return ==
    /\ pc = "epilogue"
    /\ Exit(ReturnValue, "return", <<Line("")>>)
    /\ UNCHANGED <<envVars, cfg, held, created, events, fault, devVars, pixVars>>

Next ==
    \/ ParseArguments
    \/ SelectDevice
    \/ CreateContext
    \/ CreateQueue
    \/ CreateProgram
    \/ BuildProgram
    \/ MakeKernel
    \/ LoadImage
    \/ CreateImages
    \/ WriteImage
    \/ StartTimer
    \/ InvokeKernel
    \/ DeviceStep
    \/ Finish
    \/ EndTimer
    \/ ReadBack
    \/ SaveBMP
    \/ AllocReference
    \/ RunReferencePixel
    \/ RunReferenceReturn
    \/ Verify
    \/ Cleanup
    \/ CatchError
    \/ Return

Spec == Init /\ [][Next]_vars

\* The state at line 134 of a run with no arguments on one device: the
\* image is decoded, the kernels have run and the device output is read back.
KernelEvents(n) == [k \in 1..n |-> "kernel"]

InitPixels ==
    /\ argv = <<>>
    /\ numDevices = 1
    /\ pc = "allocReference"
    /\ cfg = DefaultConfig
    /\ held = Scoped \cup {"image", "result"}
    /\ created = Scoped \cup {"image", "result"}
    /\ events = <<"write", "start">> \o KernelEvents(DefaultIterations)
                   \o <<"finish", "end", "read", "save">>
    /\ out = <<Line("Using OpenCL device"), Line("Running OpenCL..."), Line("OpenCL took")>>
    /\ status = "running"
    /\ exitCode = -1
    /\ exitAt = "none"
    /\ fault = "none"
    /\ i = DefaultIterations
    /\ pending = 0
    /\ completed = DefaultIterations
    /\ \E d \in PixelDims, seed \in Seeds :
         /\ W = d[1]
         /\ H = d[2]
         /\ \E r \in ResultImages(d[1], d[2]) :
              mem = [image |-> InputImage(d[1], d[2], seed), result |-> r,
                     reference |-> NoBuffer]
    /\ ry = 0
    /\ rx = 0
    /\ writes = NoBuffer
    /\ samples = {}
    /\ errors = 0

NextPixels ==
    \/ AllocReference
    \/ RunReferencePixel
    \/ RunReferenceReturn
    \/ Verify
    \/ Cleanup
    \/ Return

SpecPixels == InitPixels /\ [][NextPixels]_vars

\* ------------------------------------------------------------- claims
Kinds(lines) == {lines[k].kind : k \in DOMAIN lines}
Count(seq, v) == Cardinality({k \in DOMAIN seq : seq[k] = v})
Happened(e) == e \in Range(events)
Verified == Happened("verify")
ByteAt(buf, x, y, c) == mem[buf][(x + y * W) * 4 + c]

\* The (x, y, c) of the R, G, B bytes whose difference exceeds the tolerance.
Mismatches ==
    {t \in (0..(W - 1)) \X (0..(H - 1)) \X {0, 1, 2} :
        Abs(ByteAt("result", t[1], t[2], t[3]) - ByteAt("reference", t[1], t[2], t[3])) > 1}

\* C1: once the verifier has run, errors equals the number of (x, y, c), c
\* among R, G, B, with |observed - expected| > tolerance (alpha bytes and
\* differences equal to the tolerance are not counted); "Verification
\* passed." is printed exactly when that number is zero, and otherwise the
\* total is printed.
C1_MismatchCount ==
    Verified =>
        LET mm == Mismatches
        IN  /\ errors = Cardinality(mm)
            /\ ("Verification passed." \in Kinds(out)) <=> (mm = {})
            /\ (TotalLine(Cardinality(mm)) \in Range(out)) <=> (mm # {})
            /\ Count([k \in DOMAIN out |-> out[k].kind], "Total errors") <= 1

C1_Witness ==
    /\ Verified
    /\ errors > 0
    /\ errors < W * H * 3
    /\ \E x \in 0..(W - 1), y \in 0..(H - 1), c \in {0, 1, 2} :
         Abs(ByteAt("result", x, y, c) - ByteAt("reference", x, y, c)) = 1
    /\ \E x \in 0..(W - 1), y \in 0..(H - 1) :
         ByteAt("result", x, y, 3) # ByteAt("reference", x, y, 3)

\* Scan order: rows top to bottom, pixels left to right, R then G then B.
ScanKey(x, y, c) == (y * W + x) * 3 + c
Details == SelectSeq(out, LAMBDA l : l.kind = "detail")
FirstIndex(kind) == CHOOSE k \in DOMAIN out : out[k].kind = kind /\ \A m \in 1..(k - 1) : out[m].kind # kind

\* C7: the verifier prints detail lines for exactly the first min(8, total)
\* mismatches in scan order, each with its x, y, channel, observed and
\* expected byte; later mismatches are counted but not printed; the header
\* is printed once, before the first detail line, when there is a mismatch.
C7_FirstEightDetails ==
    Verified =>
        LET mm == Mismatches
            det == Details
            key == [k \in DOMAIN det |-> ScanKey(det[k].x, det[k].y, det[k].c)]
        IN  /\ Len(det) = Min(8, Cardinality(mm))
            /\ \A k \in DOMAIN det :
                 /\ <<det[k].x, det[k].y, det[k].c>> \in mm
                 /\ det[k].out = ByteAt("result", det[k].x, det[k].y, det[k].c)
                 /\ det[k].ref = ByteAt("reference", det[k].x, det[k].y, det[k].c)
                 /\ \A m \in 1..(k - 1) : key[m] < key[k]
            /\ \A t \in mm :
                 (\E k \in DOMAIN det : ScanKey(t[1], t[2], t[3]) <= key[k])
                     => \E m \in DOMAIN det : <<det[m].x, det[m].y, det[m].c>> = t
            /\ errors = Cardinality(mm)
            /\ Count([k \in DOMAIN out |-> out[k].kind], "Verification failed:")
                   = (IF mm = {} THEN 0 ELSE 1)
            /\ mm # {} => FirstIndex("Verification failed:") < FirstIndex("detail")

C7_Witness ==
    /\ Verified
    /\ errors > 8
    /\ Len(Details) = 8

\* C8: each of the 25 samples runReference reads for an output pixel lies
\* inside the image, so inside the W*H*4-byte buffer, and is the image pixel
\* nearest to the offset position: an offset that leaves the image samples
\* the edge pixel, never a wrapped-around pixel and never a made-up value.
C8_ClampedSamples ==
    /\ samples # {} => Cardinality({<<s.i, s.j>> : s \in samples}) = 25
    /\ \A s \in samples :
         /\ s.sx \in 0..(W - 1)
         /\ s.sy \in 0..(H - 1)
         /\ \A c \in {0, 1, 2} : (s.sx + s.sy * W) * 4 + c \in 0..(W * H * 4 - 1)
         /\ \A px \in 0..(W - 1) : Abs(s.sx - (s.x + s.i)) <= Abs(px - (s.x + s.i))
         /\ \A py \in 0..(H - 1) : Abs(s.sy - (s.y + s.j)) <= Abs(py - (s.y + s.j))
         /\ s.r = ByteAt("image", s.sx, s.sy, 0)
         /\ s.g = ByteAt("image", s.sx, s.sy, 1)
         /\ s.b = ByteAt("image", s.sx, s.sy, 2)
         /\ (s.x = 0 /\ s.y = 0 /\ s.i <= 0 /\ s.j <= 0) => (s.sx = 0 /\ s.sy = 0)

C8_Witness ==
    /\ W > 1
    /\ H > 1
    /\ \E s \in samples : s.x = 0 /\ s.y = 0 /\ s.i = -2 /\ s.j = -1 /\ s.sx = 0 /\ s.sy = 0
    /\ \E s \in samples : s.x = 0 /\ s.y = 0 /\ s.i = 2 /\ s.j = 2 /\ s.sx = W - 1 /\ s.sy = H - 1

\* C9: runReference stores each byte of each output pixel exactly once, the
\* alpha byte stored equals the input's alpha byte at the same position, and
\* neither runReference nor the verifier changes a byte of the input image.
RunReferenceDone == pc \in {"check", "cleanup", "epilogue", "done"} /\ Happened("reference")
PixelDone(p) == RunReferenceDone \/ (pc = "runReference" /\ p < rx + ry * W)

C9_AlphaAndFrame ==
    Happened("reference") =>
        /\ \E seed \in Seeds : mem.image = InputImage(W, H, seed)
        /\ \A p \in 0..(W * H - 1) : \A c \in 0..3 :
             /\ writes[p * 4 + c] = (IF PixelDone(p) THEN 1 ELSE 0)
        /\ \A p \in 0..(W * H - 1) :
             PixelDone(p) => mem.reference[p * 4 + 3] = mem.image[p * 4 + 3]

C9_Witness ==
    /\ Verified
    /\ W * H > 2
    /\ mem.reference[3] # mem.reference[7]
    /\ mem.reference[3] = mem.image[3]
    /\ \A k \in DOMAIN writes : writes[k] = 1

\* ------------------------------------------------ claims on a whole run
Kernels == Count(events, "kernel")

\* C2: the loop issues exactly `iterations` kernel invocations, and its body
\* has run at least once before the output is read back.
C2_IterationsAtLeastOnce ==
    /\ Happened("finish") => Kernels = cfg.iterations
    /\ Happened("read") => (Kernels >= 1 /\ completed >= 1)

\* Position of each host operation in the order the claim gives.
EventRank(e) ==
    CASE e = "write" -> 1
      [] e = "start" -> 2
      [] e = "kernel" -> 3
      [] e = "finish" -> 4
      [] e = "end" -> 5
      [] e = "read" -> 6
      [] OTHER -> 7

\* C3: the host operations occur in the order write of the input, start
\* timestamp, kernel invocations, queue.finish, end timestamp, read-back;
\* each happens only after its predecessors; the input is written once and
\* the output read once; when queue.finish has returned no kernel is left
\* to run, so the output is never read before the synchronization.
C3_HostOrder ==
    /\ \A a \in 1..(Len(events) - 1) : EventRank(events[a]) <= EventRank(events[a + 1])
    /\ \A e \in {"write", "start", "finish", "end", "read"} : Count(events, e) <= 1
    /\ Happened("start") => Happened("write")
    /\ Happened("kernel") => Happened("start")
    /\ Happened("finish") => (Happened("start") /\ pending = 0 /\ completed = Kernels)
    /\ Happened("end") => Happened("finish")
    /\ Happened("read") => Happened("end")
    /\ (exitAt = "return" /\ fault = "none") =>
           (Count(events, "write") = 1 /\ Count(events, "read") = 1)

C3_Witness ==
    /\ exitAt = "return"
    /\ fault = "none"
    /\ Kernels = 32
    /\ events[1] = "write"
    /\ events[Len(events) - 3] = "read"

\* What the claim calls a configuration error of the argument vector, read
\* from position n on: an unrecognized flag, a flag without its value, or a
\* numeric flag whose value is not a numeral.  Reading stops at --help and
\* --list, as the parser does.
IsNumeral(tok) == Len(tok) > 0 /\ \A k \in DOMAIN tok : tok[k] \in {"0", "1", "2", "3", "4", "5", "6", "7", "8", "9"}
RECURSIVE ConfigErrorFrom(_, _)
ConfigErrorFrom(av, n) ==
    IF n > Len(av) THEN FALSE
    ELSE IF av[n] \in {<<"--help">>, <<"-h">>, <<"--list">>} THEN FALSE
    ELSE IF av[n] \in {<<"--device">>, <<"--iterations">>, <<"-i">>, <<"--sd">>, <<"--sr">>}
         THEN IF n + 1 > Len(av) \/ ~IsNumeral(av[n + 1]) THEN TRUE
              ELSE ConfigErrorFrom(av, n + 2)
    ELSE IF av[n] = <<"--image">>
         THEN IF n + 1 > Len(av) THEN TRUE ELSE ConfigErrorFrom(av, n + 2)
    ELSE IF av[n] = <<"--wgsize">>
         THEN IF n + 2 > Len(av) \/ ~IsNumeral(av[n + 1]) \/ ~IsNumeral(av[n + 2]) THEN TRUE
              ELSE ConfigErrorFrom(av, n + 3)
    ELSE TRUE

\* C4: a run whose arguments hold a configuration error, or whose device
\* index is outside the device list, never creates a compute resource and
\* ends with a diagnostic and exit code 1.  (Read in the parser's favour:
\* errors after --help or --list are not counted.)
C4_ConfigErrorExitsOne ==
    /\ ConfigErrorFrom(argv, 1) =>
          /\ created = {}
          /\ pc # "parseArguments" => (status = "exit" /\ exitCode = 1 /\ Len(out) = 1)
    /\ exitAt = "deviceCheck" => (created = {} /\ exitCode = 1)

\* C5: once a fatal condition has been raised (a cl::Error at any step, a
\* build failure, an image decode failure) no kernel is invoked, output.bmp
\* is not written, the reference is not computed and no verdict is printed;
\* the diagnostic is printed before the process ends, and the build log as
\* soon as the build fails.
C5_StateAfterFault ==
    /\ fault = "CL_BUILD_PROGRAM_FAILURE" => "build log" \in Kinds(out)
    /\ fault = "DECODE" => "SDL_GetError" \in Kinds(out)
    /\ (fault \in {"CL_ERROR", "CL_BUILD_PROGRAM_FAILURE"} /\ status # "running")
          => "Exception:" \in Kinds(out)
    /\ ~(fault # "none" /\ Happened("verify"))

C5_StepAfterFault ==
    fault # "none" =>
        /\ events' = events
        /\ fault' = fault
        /\ Kinds(out') \subseteq Kinds(out) \cup {"Exception:", ""}

C5_FatalAborts == [](C5_StateAfterFault) /\ [][C5_StepAfterFault]_vars

C5_Witness ==
    /\ fault = "CL_BUILD_PROGRAM_FAILURE"
    /\ status = "exit"
    /\ "Exception:" \in Kinds(out)

\* C6: a run that got past argument parsing and device selection and ends
\* through main exits with code 0, whatever the verifier found and whether
\* or not a cl::Error was caught; exit code 1 comes only from argument
\* parsing and the device index check.
C6_ExitCodes ==
    /\ exitAt = "return" => exitCode = 0
    /\ (status = "exit" /\ "Using OpenCL device" \in Kinds(out)) => exitCode = 0
    /\ exitCode = 1 => exitAt \in {"parseArguments", "deviceCheck"}
    /\ status = "exit" => exitCode \in {0, 1}

C6_Witness ==
    /\ status = "exit"
    /\ exitAt = "return"
    /\ errors > 0
    /\ exitCode = 0

\* C10: when the process has ended, every resource the run acquired has
\* been released.
C10_AllReleasedAtExit ==
    status # "running" => held = {}

====
